---- MODULE Spec2Model ----
(***************************************************************************)
(* rust-escaper: HTML entity encoding (encode.rs) and the entity decoding  *)
(* state machine (decode.rs).                                              *)
(*                                                                         *)
(* Text is a sequence of Unicode scalar values (code points, as Nat).      *)
(* A string literal of the source is written as the tuple of its code      *)
(* points, with the literal in a comment.                                  *)
(***************************************************************************)
EXTENDS Integers, Sequences, FiniteSets, TLC

VARIABLES
    pc,        \* "encode": in the encode_*_w loop; "decode": in the decode_html_rw loop; "done": returned
    enc,       \* which encoder runs in the pipeline: "minimal" | "attribute" | "none"
    s,         \* encode_*_w: the characters of `s` iterated so far
    encoded,   \* encode_*_w: the contents of `writer` (the Vec of encode_minimal / encode_attribute)
    reader,    \* decode_html_rw: unread part of a reader whose whole content is known (Cursor over the encoded text)
    sloppy,    \* decode_html_rw: the `sloppy` argument
    state,     \* decode_html_rw: `state`
    good_pos,  \* decode_html_rw: `good_pos`
    buf,       \* decode_html_rw: `buf`
    input,     \* the characters io_support::chars(reader) has yielded so far; `pos` is Len(input)
    yielded,   \* the last item of io_support::chars: "start" | "char" | "NotUtf8" | "Other" | "end"
    writer,    \* decode_html_rw: what the sink `writer` holds
    wstat,     \* the sink: "ok" | "broken" (its next write fails) | "failed" (a write returned Err)
    result     \* decode_html_rw's return value; Running until it returns

vars == <<pc, enc, s, encoded, reader, sloppy, state, good_pos, buf, input,
          yielded, writer, wstat, result>>

(***************************************************************************)
(* Bounds of the model.                                                    *)
(***************************************************************************)
\* Inputs of the decoder: every sequence over Alphabet up to this length ...
MaxLen == 5
\* ... each extended, while a numeric escape is open, by repeating its last
\* digit up to a run of this length, and by the closing `;`.
MaxDigits == 10
\* Input length when the reader and the sink may fail.
MaxLenRW == 4
\* Length of the text given to the encoders.
MaxText == 3

(***************************************************************************)
(* Characters the source names.                                            *)
(***************************************************************************)
AMP == 38
HASH == 35
SEMI == 59
CH_x == 120
CH_0 == 48
CH_9 == 57
CH_a == 97
CH_f == 102
CH_z == 122
CH_A == 65
CH_F == 70
CH_Z == 90

\* Characters used only to build inputs.
CH_5 == 53
CH_D == 68
CH_d == 100
CH_COMMA == 44
CH_LF == 10
CH_EACUTE == 233
CH_AMACRON == 256

\* lib.rs: MINIMAL_ENTITIES, sorted by character.
MINIMAL_ENTITIES ==
    << <<34, <<38, 113, 117, 111, 116, 59>> >>,   \* ('"',  "&quot;")
       <<38, <<38, 97, 109, 112, 59>> >>,         \* ('&',  "&amp;")
       <<39, <<38, 35, 120, 50, 55, 59>> >>,      \* ('\'', "&#x27;")
       <<60, <<38, 108, 116, 59>> >>,             \* ('<',  "&lt;")
       <<62, <<38, 103, 116, 59>> >> >>           \* ('>',  "&gt;")

\* entities::ENTITIES (the external crate's table), the records the inputs
\* of this model can name.  As in the crate, `entity` holds the leading `&`,
\* and the legacy names are listed a second time without their `;`.
ENTITIES ==
    << [entity |-> <<38, 97, 109, 112>>,               characters |-> <<38>>],   \* "&amp"
       [entity |-> <<38, 97, 109, 112, 59>>,           characters |-> <<38>>],   \* "&amp;"
       [entity |-> <<38, 68, 68, 59>>,                 characters |-> <<8517>>], \* "&DD;"
       [entity |-> <<38, 100, 100, 59>>,               characters |-> <<8518>>], \* "&dd;"
       [entity |-> <<38, 103, 116>>,                   characters |-> <<62>>],   \* "&gt"
       [entity |-> <<38, 103, 116, 59>>,               characters |-> <<62>>],   \* "&gt;"
       [entity |-> <<38, 108, 116>>,                   characters |-> <<60>>],   \* "&lt"
       [entity |-> <<38, 108, 116, 59>>,               characters |-> <<60>>],   \* "&lt;"
       [entity |-> <<38, 113, 117, 111, 116>>,         characters |-> <<34>>],   \* "&quot"
       [entity |-> <<38, 113, 117, 111, 116, 59>>,     characters |-> <<34>>] >> \* "&quot;"

(***************************************************************************)
(* decode.rs: helpers.                                                     *)
(***************************************************************************)
is_digit(c) == c >= CH_0 /\ c <= CH_9

is_hex_digit(c) ==
    is_digit(c) \/ (c >= CH_a /\ c <= CH_f) \/ (c >= CH_A /\ c <= CH_F)

\* A faulty to_digit: the lowercase letters are no digits.
to_digit_uppercase(c, radix) ==
    LET v == IF is_digit(c) THEN c - CH_0
             ELSE IF c >= CH_A /\ c <= CH_Z THEN c - CH_A + 10
             ELSE -1
    IN  IF v >= 0 /\ v < radix THEN v ELSE -1

\* char::to_digit(radix): -1 stands for None.
to_digit(c, radix) ==
    LET v == IF is_digit(c) THEN c - CH_0
             ELSE IF c >= CH_a /\ c <= CH_z THEN c - CH_a + 10
             ELSE IF c >= CH_A /\ c <= CH_Z THEN c - CH_A + 10
             ELSE -1
    IN  IF v >= 0 /\ v < radix THEN v ELSE -1

\* u32::from_str_radix.  A u32 is kept as its two 16-bit halves (hi, lo), so
\* that the 32-bit overflow test is computed exactly.  An empty string, a
\* character that is no digit of the radix, and a value above u32::MAX are
\* errors.  (A leading `+`, which from_str_radix skips, never reaches it:
\* only digits are pushed to buf in Numeric, Dec and Hex.)
RECURSIVE from_str_radix_from(_, _, _, _, _)
from_str_radix_from(esc, radix, i, hi, lo) ==
    IF i > Len(esc) THEN [ok |-> TRUE, hi |-> hi, lo |-> lo]
    ELSE LET d == to_digit(esc[i], radix)
             lo2 == lo * radix + d
             hi2 == hi * radix + (lo2 \div 65536)
         IN  IF d < 0 \/ hi2 >= 65536
             THEN [ok |-> FALSE, hi |-> 0, lo |-> 0]
             ELSE from_str_radix_from(esc, radix, i + 1, hi2, lo2 % 65536)

from_str_radix(esc, radix) ==
    IF esc = <<>> THEN [ok |-> FALSE, hi |-> 0, lo |-> 0]
    ELSE from_str_radix_from(esc, radix, 1, 0, 0)

\* char::from_u32: None (-1) for a surrogate and for a value above 0x10FFFF.
from_u32(hi, lo) ==
    IF hi > 16 \/ (hi = 0 /\ lo >= 55296 /\ lo <= 57343) THEN -1
    ELSE hi * 65536 + lo

decode_numeric(esc, radix) ==
    LET n == from_str_radix(esc, radix)
    IN  IF n.ok
        THEN IF from_u32(n.hi, n.lo) >= 0
             THEN [ok |-> TRUE, ch |-> from_u32(n.hi, n.lo), kind |-> "none"]
             ELSE [ok |-> FALSE, ch |-> 0, kind |-> "InvalidCharacter"]
        ELSE [ok |-> FALSE, ch |-> 0, kind |-> "MalformedNumEscape"]

decode_named_entity(entity) ==
    LET hits == {i \in 1..Len(ENTITIES) : ENTITIES[i].entity = entity}
    IN  IF hits = {}
        THEN [ok |-> FALSE, characters |-> <<>>, kind |-> "UnknownEntity"]
        ELSE [ok |-> TRUE,
              characters |-> ENTITIES[CHOOSE i \in hits : \A j \in hits : i <= j].characters,
              kind |-> "none"]

(***************************************************************************)
(* decode.rs: decode_html_rw.  Its locals are the record                   *)
(*   [sloppy, state, good_pos, buf, writer, wstat, result].                *)
(***************************************************************************)
Running == [tag |-> "running", position |-> 0, kind |-> "none"]
Ok == [tag |-> "ok", position |-> 0, kind |-> "none"]
Err(position, kind) == [tag |-> "err", position |-> position, kind |-> kind]
\* &buf[1..] with 1 past the end of buf, or inside its first character.
Panic == [tag |-> "panic", position |-> 0, kind |-> "none"]

Locals(sl) ==
    [sloppy |-> sl, state |-> "Normal", good_pos |-> 0, buf |-> <<>>,
     writer |-> <<>>, wstat |-> "ok", result |-> Running]

\* return Err(DecodeErr { position: good_pos, kind })
Fail(d, kind) == [d EXCEPT !.result = Err(d.good_pos, kind)]

\* try_dec_io!(write_char(writer, c), good_pos) and
\* try_dec_io!(writer.write_all(bytes), good_pos): a sink that fails returns
\* Err and takes nothing.
try_dec_io(d, chars) ==
    IF d.wstat = "ok"
    THEN [d EXCEPT !.writer = @ \o chars]
    ELSE [d EXCEPT !.wstat = "failed", !.result = Err(d.good_pos, "IoError")]

\* The statements after a try_dec_io!, run only when it did not return.
ThenClear(d) ==
    IF d.result.tag = "running" THEN [d EXCEPT !.buf = <<>>] ELSE d

\* Normal if c == '&'
NormalAmp(d, c) == [d EXCEPT !.buf = Append(@, c), !.state = "Entity"]

\* A faulty NormalChar: a `;` outside an entity is taken for a terminator
\* and not written.
NormalChar_dropping(d, c) ==
    IF c = SEMI THEN d ELSE try_dec_io(d, <<c>>)

\* Normal
NormalChar(d, c) == try_dec_io(d, <<c>>)

\* Entity if c == '#'
EntityHash(d) == [d EXCEPT !.state = "Numeric"]

\* Entity if c == ';'
EntitySemi(d) ==
    IF d.sloppy THEN [d EXCEPT !.buf = <<>>] ELSE Fail(d, "UnknownEntity")

\* Entity
EntityChar(d, c) == [d EXCEPT !.state = "Named", !.buf = Append(@, c)]

\* A faulty NamedSemi: sloppy mode discards an unknown entity, as it does a
\* malformed numeric escape, and does not write it.
NamedSemi_discarding(d, c) ==
    LET d1 == [d EXCEPT !.buf = Append(@, c), !.state = "Normal"]
        r == decode_named_entity(d1.buf)
    IN  IF ~r.ok
        THEN IF d1.sloppy
             THEN [d1 EXCEPT !.buf = <<>>]
             ELSE Fail(d1, r.kind)
        ELSE ThenClear(try_dec_io(d1, r.characters))

\* A faulty NamedSemi: `sloppy` is tested before the result of the lookup,
\* so that sloppy mode writes every named entity as it stands.
NamedSemi_verbatim(d, c) ==
    LET d1 == [d EXCEPT !.buf = Append(@, c), !.state = "Normal"]
        r == decode_named_entity(d1.buf)
    IN  IF d1.sloppy THEN ThenClear(try_dec_io(d1, d1.buf))
        ELSE IF ~r.ok THEN Fail(d1, r.kind)
        ELSE ThenClear(try_dec_io(d1, r.characters))

\* A faulty NamedSemi: the buffered text of an unknown entity is written
\* before the mode is looked at.
NamedSemi_writing(d, c) ==
    LET d1 == [d EXCEPT !.buf = Append(@, c), !.state = "Normal"]
        r == decode_named_entity(d1.buf)
    IN  IF ~r.ok
        THEN IF d1.sloppy
             THEN ThenClear(try_dec_io(d1, d1.buf))
             ELSE Fail(try_dec_io(d1, d1.buf), r.kind)
        ELSE ThenClear(try_dec_io(d1, r.characters))

\* Named if c == ';'
NamedSemi(d, c) ==
    LET d1 == [d EXCEPT !.buf = Append(@, c), !.state = "Normal"]
        r == decode_named_entity(d1.buf)
    IN  IF ~r.ok
        THEN IF d1.sloppy
             THEN ThenClear(try_dec_io(d1, d1.buf))
             ELSE Fail(d1, r.kind)
        ELSE ThenClear(try_dec_io(d1, r.characters))

\* Named
NamedChar(d, c) == [d EXCEPT !.buf = Append(@, c)]

\* Numeric if is_digit(c)
NumericDigit(d, c) == [d EXCEPT !.state = "Dec", !.buf = Append(@, c)]

\* Numeric if c == 'x'
NumericX(d) == [d EXCEPT !.state = "Hex"]

\* A faulty NumSemi: sloppy mode recovers from a failed decode_numeric as
\* it does from the other malformed escapes.
NumSemi_recovering(d, radix) ==
    LET d1 == [d EXCEPT !.state = "Normal"]
    IN  IF d1.buf = <<>> \/ d1.buf[1] >= 128
        THEN [d1 EXCEPT !.result = Panic]
        ELSE LET r == decode_numeric(Tail(d1.buf), radix)
             IN  IF ~r.ok
                 THEN IF d1.sloppy THEN [d1 EXCEPT !.buf = <<>>] ELSE Fail(d1, r.kind)
                 ELSE ThenClear(try_dec_io(d1, <<r.ch>>))

\* Dec if c == ';' (radix 10) and Hex if c == ';' (radix 16).  &buf[1..]
\* panics when buf is empty or when byte 1 is inside its first character.
NumSemi(d, radix) ==
    LET d1 == [d EXCEPT !.state = "Normal"]
    IN  IF d1.buf = <<>> \/ d1.buf[1] >= 128
        THEN [d1 EXCEPT !.result = Panic]
        ELSE LET r == decode_numeric(Tail(d1.buf), radix)
             IN  IF ~r.ok THEN Fail(d1, r.kind)
                 ELSE ThenClear(try_dec_io(d1, <<r.ch>>))

\* Hex if is_hex_digit(c) and Dec if is_digit(c)
NumPush(d, c) == [d EXCEPT !.buf = Append(@, c)]

\* A faulty NumOther: sloppy mode keeps the buffer.
NumOther_keeping(d) ==
    IF d.sloppy THEN d ELSE Fail(d, "MalformedNumEscape")

\* Numeric | Hex | Dec
NumOther(d) ==
    IF d.sloppy THEN [d EXCEPT !.buf = <<>>] ELSE Fail(d, "MalformedNumEscape")

\* match state { ... }: the first arm, in the order of the source, whose
\* pattern and guard hold.
match_state(d, c) ==
    IF d.state = "Normal" /\ c = AMP THEN NormalAmp(d, c)
    ELSE IF d.state = "Normal" THEN NormalChar(d, c)
    ELSE IF d.state = "Entity" /\ c = HASH THEN EntityHash(d)
    ELSE IF d.state = "Entity" /\ c = SEMI THEN EntitySemi(d)
    ELSE IF d.state = "Entity" THEN EntityChar(d, c)
    ELSE IF d.state = "Named" /\ c = SEMI THEN NamedSemi(d, c)
    ELSE IF d.state = "Named" THEN NamedChar(d, c)
    ELSE IF d.state = "Numeric" /\ is_digit(c) THEN NumericDigit(d, c)
    ELSE IF d.state = "Numeric" /\ c = CH_x THEN NumericX(d)
    ELSE IF d.state = "Dec" /\ c = SEMI THEN NumSemi(d, 10)
    ELSE IF d.state = "Hex" /\ c = SEMI THEN NumSemi(d, 16)
    ELSE IF d.state = "Hex" /\ is_hex_digit(c) THEN NumPush(d, c)
    ELSE IF d.state = "Dec" /\ is_digit(c) THEN NumPush(d, c)
    ELSE NumOther(d)

\* A faulty loop_body: good_pos follows every character, whatever the state.
loop_body_eager(d, pos, c) ==
    LET m == match_state(d, c)
    IN  IF m.result.tag # "running" THEN m
        ELSE [m EXCEPT !.good_pos = pos + 1]

\* A faulty loop_body: positions are counted from one.
loop_body_one_based(d, pos, c) ==
    LET m == match_state(d, c)
    IN  IF m.result.tag # "running" THEN m
        ELSE IF m.state = "Normal" THEN [m EXCEPT !.good_pos = pos + 2]
        ELSE m

\* The body of `for (pos, c) in chars(reader).enumerate()` for an Ok(c).
loop_body(d, pos, c) ==
    LET m == match_state(d, c)
    IN  IF m.result.tag # "running" THEN m
        ELSE IF m.state = "Normal" THEN [m EXCEPT !.good_pos = pos + 1]
        ELSE m

\* A faulty chars_error: sloppy mode skips an item the reader could not
\* decode.
chars_error_skipping(d, pos, e) ==
    IF d.sloppy THEN d
    ELSE [d EXCEPT !.result =
            Err(pos, IF e = "NotUtf8" THEN "EncodingError" ELSE "IoError")]

\* The Err(e) arm of the loop: the reader's failure is returned at `pos`.
chars_error(d, pos, e) ==
    [d EXCEPT !.result =
        Err(pos, IF e = "NotUtf8" THEN "EncodingError" ELSE "IoError")]

\* A faulty after_loop: the test of `sloppy` is missing.
after_loop_strict(d) ==
    IF d.state # "Normal"
    THEN [d EXCEPT !.result = Err(d.good_pos, "PrematureEnd")]
    ELSE [d EXCEPT !.result = Ok]

\* After the loop.
after_loop(d) ==
    IF d.state # "Normal" /\ ~d.sloppy
    THEN [d EXCEPT !.result = Err(d.good_pos, "PrematureEnd")]
    ELSE [d EXCEPT !.result = Ok]

\* decode_html_rw over a whole input with a sound reader and sink: the
\* locals when it returns or, with `finish` FALSE, when the input is used up.
RECURSIVE decode_from(_, _, _, _)
decode_from(d, text, i, finish) ==
    IF d.result.tag # "running" THEN d
    ELSE IF i > Len(text) THEN (IF finish THEN after_loop(d) ELSE d)
    ELSE decode_from(loop_body(d, i - 1, text[i]), text, i + 1, finish)

decode_html_rw(text, sl) == decode_from(Locals(sl), text, 1, TRUE)

(***************************************************************************)
(* encode.rs.                                                              *)
(***************************************************************************)
\* MINIMAL_ENTITIES.binary_search_by(|&(ec, _)| ec.cmp(&c)): the index of
\* the entry for c, or 0 for Err.
RECURSIVE binary_search(_, _, _)
binary_search(c, lo, hi) ==
    IF lo >= hi THEN 0
    ELSE LET mid == lo + ((hi - lo) \div 2)
             ec == MINIMAL_ENTITIES[mid + 1][1]
         IN  IF ec = c THEN mid + 1
             ELSE IF ec < c THEN binary_search(c, mid + 1, hi)
             ELSE binary_search(c, lo, mid)

\* A faulty get_entity: the search stops short of the last entry.
get_entity_short(c) ==
    LET idx == binary_search(c, 0, Len(MINIMAL_ENTITIES) - 1)
    IN  IF idx = 0 THEN <<>> ELSE MINIMAL_ENTITIES[idx][2]

\* <<>> stands for None: no replacement is empty.
get_entity(c) ==
    LET idx == binary_search(c, 0, Len(MINIMAL_ENTITIES))
    IN  IF idx = 0 THEN <<>> ELSE MINIMAL_ENTITIES[idx][2]

HexDigits == <<48, 49, 50, 51, 52, 53, 54, 55, 56, 57, 65, 66, 67, 68, 69, 70>> \* b"0123456789ABCDEF"

\* A faulty write_hex: a leading zero digit is not written.
write_hex_unpadded(c) ==
    LET n == c % 256
    IN  <<38, 35, 120>> \o
        (IF n < 16 THEN <<>> ELSE <<HexDigits[((n \div 16) % 16) + 1]>>) \o
        <<HexDigits[(n % 16) + 1], 59>>

\* A faulty write_hex: the two nibbles are written in the wrong order.
write_hex_swapped(c) ==
    LET n == c % 256
    IN  <<38, 35, 120>> \o
        <<HexDigits[(n % 16) + 1], HexDigits[((n \div 16) % 16) + 1], 59>>

write_hex(c) ==
    LET n == c % 256   \* c as u8
    IN  <<38, 35, 120>> \o
        <<HexDigits[((n \div 16) % 16) + 1], HexDigits[(n % 16) + 1], 59>>

is_ascii_alnum(c) ==
    (c >= CH_a /\ c <= CH_z) \/ (c >= CH_A /\ c <= CH_Z) \/ (c >= CH_0 /\ c <= CH_9)

\* What one iteration of encode_minimal_w writes.
encode_minimal_w(c) ==
    IF get_entity(c) = <<>> THEN <<c>> ELSE get_entity(c)

\* A faulty encode_attribute_w: `b <= 256` for `b < 256`.
encode_attribute_w_off_by_one(c) ==
    LET b == c
    IN  IF get_entity(c) # <<>> THEN get_entity(c)
        ELSE IF b <= 256 /\ (b > 127 \/ ~is_ascii_alnum(c)) THEN write_hex(c)
        ELSE <<c>>

\* What one iteration of encode_attribute_w writes.
encode_attribute_w(c) ==
    LET b == c
    IN  IF get_entity(c) # <<>> THEN get_entity(c)
        ELSE IF b < 256 /\ (b > 127 \/ ~is_ascii_alnum(c)) THEN write_hex(c)
        ELSE <<c>>

(***************************************************************************)
(* The state machines.                                                     *)
(***************************************************************************)
\* Input characters of the decoder.
Alphabet == {AMP, HASH, SEMI, CH_x, CH_5, CH_D, CH_d}

\* Characters of the text given to the encoders: the five of the table, an
\* alphanumeric, ASCII punctuation, a control character, a Latin-1 letter
\* and a character above 255.
TextAlphabet == {34, AMP, 39, 60, 62, CH_d, CH_COMMA, CH_LF, CH_EACUTE, CH_AMACRON}

RECURSIVE TrailingRun(_)
TrailingRun(t) ==
    IF Len(t) <= 1 THEN Len(t)
    ELSE IF t[Len(t)] = t[Len(t) - 1] THEN 1 + TrailingRun(SubSeq(t, 1, Len(t) - 1))
    ELSE 1

\* The inputs explored: see MaxLen and MaxDigits.
InBounds(c, maxlen) ==
    \/ Len(input) < maxlen
    \/ /\ state \in {"Hex", "Dec"}
       /\ input # <<>>
       /\ is_hex_digit(input[Len(input)])
       /\ \/ c = SEMI
          \/ c = input[Len(input)] /\ TrailingRun(input) < MaxDigits

Cur ==
    [sloppy |-> sloppy, state |-> state, good_pos |-> good_pos, buf |-> buf,
     writer |-> writer, wstat |-> wstat, result |-> result]

Becomes(d) ==
    /\ state' = d.state
    /\ good_pos' = d.good_pos
    /\ buf' = d.buf
    /\ writer' = d.writer
    /\ wstat' = d.wstat
    /\ result' = d.result
    /\ pc' = IF d.result.tag = "running" THEN pc ELSE "done"
    /\ UNCHANGED sloppy

InitDecode ==
    /\ sloppy \in BOOLEAN
    /\ state = "Normal"
    /\ good_pos = 0
    /\ buf = <<>>
    /\ input = <<>>
    /\ yielded = "start"
    /\ writer = <<>>
    /\ wstat = "ok"
    /\ result = Running

\* decode_html / decode_html_sloppy on a string: the reader is a Cursor
\* over valid UTF-8 and the sink a Vec, neither of which fails.
Init ==
    /\ pc = "decode"
    /\ enc = "none"
    /\ s = <<>>
    /\ encoded = <<>>
    /\ reader = <<>>
    /\ InitDecode

\* The reader yields Ok(c).
ReadChar(c, maxlen) ==
    /\ pc = "decode"
    /\ result.tag = "running"
    /\ InBounds(c, maxlen)
    /\ input' = Append(input, c)
    /\ yielded' = "char"
    /\ Becomes(loop_body(Cur, Len(input), c))
    /\ UNCHANGED <<enc, s, encoded, reader>>

\* The reader is at its end: the loop is left.
EndOfInput ==
    /\ pc = "decode"
    /\ result.tag = "running"
    /\ reader = <<>>
    /\ yielded' = "end"
    /\ Becomes(after_loop(Cur))
    /\ UNCHANGED <<enc, s, encoded, reader, input>>

Next ==
    \/ \E c \in Alphabet : ReadChar(c, MaxLen)
    \/ EndOfInput

Spec == Init /\ [][Next]_vars

(***************************************************************************)
(* decode_html_rw on any reader and sink: the reader may yield an error    *)
(* instead of a character, and the sink may start to fail.                 *)
(***************************************************************************)
\* The reader yields Err(e): CharsError::NotUtf8 or CharsError::Other(io).
ReadError(e) ==
    /\ pc = "decode"
    /\ result.tag = "running"
    /\ yielded' = e
    /\ Becomes(chars_error(Cur, Len(input), e))
    /\ UNCHANGED <<enc, s, encoded, reader, input>>

\* The sink breaks: from now on its writes return Err.
SinkBreaks ==
    /\ pc = "decode"
    /\ result.tag = "running"
    /\ wstat = "ok"
    /\ wstat' = "broken"
    /\ UNCHANGED <<pc, enc, s, encoded, reader, sloppy, state, good_pos, buf,
                   input, yielded, writer, result>>

NextRW ==
    \/ \E c \in Alphabet : ReadChar(c, MaxLenRW)
    \/ EndOfInput
    \/ \E e \in {"NotUtf8", "Other"} : ReadError(e)
    \/ SinkBreaks

SpecRW == Init /\ [][NextRW]_vars

(***************************************************************************)
(* The round trip of the benchmarks: decode_html(&encode_minimal(s)) and   *)
(* decode_html(&encode_attribute(s)), and the same through                 *)
(* decode_html_sloppy.                                                     *)
(***************************************************************************)
InitRT ==
    /\ pc = "encode"
    /\ enc \in {"minimal", "attribute"}
    /\ s = <<>>
    /\ encoded = <<>>
    /\ reader = <<>>
    /\ InitDecode

\* One iteration of `for c in s.chars()` in encode_minimal_w / encode_attribute_w.
EncodeChar(c) ==
    /\ pc = "encode"
    /\ Len(s) < MaxText
    /\ s' = Append(s, c)
    /\ encoded' = encoded \o (IF enc = "minimal" THEN encode_minimal_w(c)
                              ELSE encode_attribute_w(c))
    /\ UNCHANGED <<pc, enc, reader, sloppy, state, good_pos, buf, input,
                   yielded, writer, wstat, result>>

\* The encoder returns its String, which is handed to the decoder.
EncodeReturn ==
    /\ pc = "encode"
    /\ pc' = "decode"
    /\ reader' = encoded
    /\ UNCHANGED <<enc, s, encoded, sloppy, state, good_pos, buf, input,
                   yielded, writer, wstat, result>>

\* The Cursor over the encoded text yields its next character.
ReadEncoded ==
    /\ pc = "decode"
    /\ result.tag = "running"
    /\ reader # <<>>
    /\ reader' = Tail(reader)
    /\ input' = Append(input, Head(reader))
    /\ yielded' = "char"
    /\ Becomes(loop_body(Cur, Len(input), Head(reader)))
    /\ UNCHANGED <<enc, s, encoded>>

NextRT ==
    \/ \E c \in TextAlphabet : EncodeChar(c)
    \/ EncodeReturn
    \/ ReadEncoded
    \/ EndOfInput

SpecRT == InitRT /\ [][NextRT]_vars

(***************************************************************************)
(* Properties.                                                             *)
(***************************************************************************)
EntityKinds == {"UnknownEntity", "MalformedNumEscape", "InvalidCharacter", "PrematureEnd"}

NoAmp(t) == \A i \in 1..Len(t) : t[i] # AMP

Has(t, c) == \E i \in 1..Len(t) : t[i] = c

\* The Minimal Escape Table of the specification.
MinimalDomain == {34, 38, 39, 60, 62}

MinimalReplacement(c) ==
    CASE c = 34 -> <<38, 113, 117, 111, 116, 59>>   \* &quot;
      [] c = 38 -> <<38, 97, 109, 112, 59>>         \* &amp;
      [] c = 39 -> <<38, 35, 120, 50, 55, 59>>      \* &#x27;
      [] c = 60 -> <<38, 108, 116, 59>>             \* &lt;
      [] c = 62 -> <<38, 103, 116, 59>>             \* &gt;
      [] OTHER -> <<c>>

AsciiAlnum == (48..57) \cup (65..90) \cup (97..122)

\* The uppercase hex digit of v in 0..15.
UpperHex(v) == IF v < 10 THEN 48 + v ELSE 55 + v

AttributeReplacement(c) ==
    IF c \in MinimalDomain THEN MinimalReplacement(c)
    ELSE IF c < 256 /\ c \notin AsciiAlnum
         THEN <<38, 35, 120, UpperHex(c \div 16), UpperHex(c % 16), 59>>
         ELSE <<c>>

RECURSIVE ExpectedMinimal(_)
ExpectedMinimal(t) ==
    IF t = <<>> THEN <<>> ELSE MinimalReplacement(Head(t)) \o ExpectedMinimal(Tail(t))

RECURSIVE ExpectedAttribute(_)
ExpectedAttribute(t) ==
    IF t = <<>> THEN <<>> ELSE AttributeReplacement(Head(t)) \o ExpectedAttribute(Tail(t))

\* The characters an encoder leaves alone.
Unescaped(t, e) ==
    \A i \in 1..Len(t) :
        /\ t[i] \notin MinimalDomain
        /\ e = "attribute" => (t[i] >= 256 \/ t[i] \in AsciiAlnum)

\* The locals of a decode of the first k characters read, before the end
\* of the input is seen.
After(k) == decode_from(Locals(sloppy), SubSeq(input, 1, k), 1, FALSE)

\* C1: sloppy decoding never returns UnknownEntity, MalformedNumEscape or
\* PrematureEnd.
C1_SloppyNeverFailsOnSyntax ==
    (sloppy /\ result.tag = "err") =>
        result.kind \notin {"UnknownEntity", "MalformedNumEscape", "PrematureEnd"}

\* C2: for a text of characters outside the escaped set of the encoder,
\* the strict decode of the encoded text returns Ok and the text itself.
C2_RoundTripUnescaped ==
    (pc = "done" /\ ~sloppy /\ Unescaped(s, enc)) =>
        (result = Ok /\ writer = s)

C2_Witness ==
    /\ pc = "done" /\ ~sloppy /\ enc = "attribute"
    /\ Unescaped(s, enc) /\ Len(s) >= 2
    /\ Has(s, CH_AMACRON) /\ Has(s, CH_d)
    /\ writer = s

\* C3: when the input ends in a state other than Normal, strict mode
\* returns PrematureEnd at good_pos; sloppy mode returns Ok and the sink
\* holds what it held after the first good_pos characters: nothing of the
\* open fragment is written.
C3_EndInsideEntity ==
    (yielded = "end" /\ state # "Normal") =>
        IF sloppy
        THEN result = Ok /\ writer = After(good_pos).writer
        ELSE result = Err(good_pos, "PrematureEnd")

C3_Witness ==
    /\ yielded = "end" /\ state # "Normal" /\ sloppy
    /\ writer # <<>> /\ Len(input) > good_pos + 1
    /\ result = Ok

\* C4: in strict mode the position of an entity-parsing error is the index
\* of the `&` that opened the entity: the decoder was in Normal before that
\* `&` and in no later prefix, and the position is before the place where
\* the error was detected.
C4_ErrorAtEntityStart ==
    (~sloppy /\ result.tag = "err" /\ result.kind \in EntityKinds) =>
        LET p == result.position
            detected == IF result.kind = "PrematureEnd" THEN Len(input)
                        ELSE Len(input) - 1
        IN  /\ p < detected
            /\ input[p + 1] = AMP
            /\ After(p).state = "Normal"
            /\ \A k \in (p + 1)..detected :
                  After(k).state # "Normal" /\ After(k).result = Running

C4_Witness ==
    /\ ~sloppy /\ result.tag = "err" /\ result.kind = "MalformedNumEscape"
    /\ result.position >= 1
    /\ Len(input) >= result.position + 4

\* The value of a string of digits, for strings short enough to stay in
\* range of the model checker's integers.
DigitValue(c) == IF c <= 57 THEN c - 48 ELSE IF c >= 97 THEN c - 87 ELSE c - 55

RECURSIVE NatValue(_, _)
NatValue(digits, radix) ==
    IF digits = <<>> THEN 0
    ELSE NatValue(SubSeq(digits, 1, Len(digits) - 1), radix) * radix
         + DigitValue(digits[Len(digits)])

\* The digits denote an integer below 2^32 that is no Unicode scalar value.
NotScalar(digits, radix) ==
    /\ digits # <<>>
    /\ IF Len(digits) <= 6
       THEN LET v == NatValue(digits, radix)
            IN  (v >= 55296 /\ v <= 57343) \/ v > 1114111
       ELSE /\ digits[1] # CH_0
            /\ Len(digits) <= (IF radix = 16 THEN 8 ELSE 9)

\* C5: when `;` closes a numeric reference `&#digits;` or `&#xdigits;`
\* whose digits denote a surrogate or a value above 0x10FFFF, decode returns
\* InvalidCharacter, in sloppy mode as in strict mode, and writes nothing.
C5_InvalidCharacterAlways ==
    [][ ( /\ result.tag = "running"
          /\ state \in {"Dec", "Hex"}
          /\ buf # <<>> /\ buf[1] = AMP
          /\ input' = Append(input, SEMI)
          /\ NotScalar(Tail(buf), IF state = "Hex" THEN 16 ELSE 10) )
        => ( result' = Err(good_pos, "InvalidCharacter") /\ writer' = writer )
      ]_vars

C5_Witness ==
    /\ sloppy /\ result.tag = "err" /\ result.kind = "InvalidCharacter"
    /\ buf = <<AMP, CH_D, CH_D, CH_D, CH_D>>
    /\ input[Len(input)] = SEMI

\* C6: a text with no `&` is decoded to itself, strict and sloppy alike,
\* and the decoder is in Normal all along.
C6_NoAmpIdentity ==
    NoAmp(input) =>
        /\ state = "Normal" /\ buf = <<>>
        /\ writer = input
        /\ result.tag \in {"running", "ok"}
        /\ (yielded = "end" => result = Ok)

C6_Witness ==
    /\ yielded = "end" /\ NoAmp(input) /\ Len(input) >= 3
    /\ Has(input, SEMI) /\ Has(input, HASH) /\ Has(input, CH_x)
    /\ result = Ok

\* C7: encode_minimal replaces each of the five table characters by its
\* replacement and writes every other character unchanged, in order.
C7_EncodeMinimal ==
    enc = "minimal" => encoded = ExpectedMinimal(s)

C7_Witness ==
    /\ enc = "minimal" /\ pc = "decode" /\ Len(s) >= 2
    /\ \A i \in 1..Len(s) : s[i] = 62
    /\ reader = encoded

\* C8: encode_attribute writes the table replacement of a table character,
\* `&#xHH;` (two uppercase hex digits) for any other character below 256
\* that is no ASCII alphanumeric, and every other character unchanged.
C8_EncodeAttribute ==
    enc = "attribute" => encoded = ExpectedAttribute(s)

C8_Witness ==
    /\ enc = "attribute" /\ pc = "decode"
    /\ Has(s, CH_LF) /\ Has(s, CH_EACUTE) /\ Has(s, CH_AMACRON)
    /\ reader = encoded

\* C9: a failure of the reader or of the sink ends decode at once with
\* EncodingError or IoError, whatever the state and the mode; afterwards no
\* input is read and nothing is written.
C9_IoFailureAborts ==
    /\ [](/\ yielded = "NotUtf8" => result = Err(Len(input), "EncodingError")
          /\ yielded = "Other" => result = Err(Len(input), "IoError")
          /\ wstat = "failed" => result = Err(good_pos, "IoError"))
    /\ [][ /\ (yielded \in {"NotUtf8", "Other"} \/ wstat = "failed")
               => UNCHANGED <<input, writer, result>>
           /\ (yielded' \in {"NotUtf8", "Other"} \/ wstat' = "failed")
               => writer' = writer
         ]_vars

C9_Witness ==
    /\ sloppy /\ wstat = "failed" /\ Len(buf) >= 2
    /\ result.kind = "IoError"

\* C10: in Entity, on `;`, sloppy mode discards the buffer and returns to
\* Normal, and strict mode fails with UnknownEntity at good_pos.
C10_EmptyEntity ==
    [][ ( /\ result.tag = "running"
          /\ state = "Entity"
          /\ input' = Append(input, SEMI) )
        => IF sloppy
           THEN buf' = <<>> /\ state' = "Normal" /\ result' = Running
           ELSE result' = Err(good_pos, "UnknownEntity")
      ]_vars

\* The characters that continue a numeric escape in each of its states.
DecDigits == 48..57

HexDigitSet == (48..57) \cup (65..70) \cup (97..102)

Continues(st, c) ==
    CASE st = "Numeric" -> c \in DecDigits \/ c = CH_x
      [] st = "Hex" -> c \in HexDigitSet
      [] st = "Dec" -> c \in DecDigits
      [] OTHER -> FALSE

\* The step reads c.
Reads(c) == result.tag = "running" /\ input' = Append(input, c)

\* C11: in Numeric, Hex or Dec, a character that neither continues the
\* escape nor is `;` is malformed: sloppy mode discards the buffer, writes
\* nothing and returns no error; strict mode returns MalformedNumEscape at
\* good_pos.
C11_MalformedNumeric ==
    [][ \A c \in Alphabet :
          ( /\ Reads(c)
            /\ state \in {"Numeric", "Hex", "Dec"}
            /\ c # SEMI /\ ~Continues(state, c) )
          => IF sloppy
             THEN buf' = <<>> /\ writer' = writer /\ result' = Running
             ELSE result' = Err(good_pos, "MalformedNumEscape") /\ writer' = writer
      ]_vars

C11_Witness ==
    /\ sloppy /\ result = Running
    /\ state = "Dec" /\ buf = <<>>
    /\ Len(input) >= 4 /\ input[Len(input)] = CH_D /\ input[Len(input) - 1] = CH_5

\* The records of the entity table whose name is exactly b.
EntityRecords(b) == {i \in 1..Len(ENTITIES) : ENTITIES[i].entity = b}

\* C12: in Named, on `;`, the buffer with the `;` appended is looked up by
\* exact match.  On a hit the replacement is written, the buffer cleared and
\* the state Normal.  On a miss sloppy mode writes the buffered text as it
\* is, clears the buffer and is in Normal; strict mode returns UnknownEntity
\* at good_pos.  The match is case-sensitive: `&dd;` and `&DD;` are two
\* entities, `&dD;` and `&Dd;` are none.
C12_NamedLookup ==
    [][ ( Reads(SEMI) /\ state = "Named" )
        => LET b == Append(buf, SEMI)
               done == buf' = <<>> /\ state' = "Normal" /\ result' = Running
           IN  /\ EntityRecords(b) # {} =>
                    /\ \E i \in EntityRecords(b) : writer' = writer \o ENTITIES[i].characters
                    /\ done
               /\ EntityRecords(b) = {} =>
                    IF sloppy THEN writer' = writer \o b /\ done
                    ELSE result' = Err(good_pos, "UnknownEntity") /\ writer' = writer
               /\ b = <<AMP, CH_d, CH_d, SEMI>> => writer' = Append(writer, 8518)
               /\ b = <<AMP, CH_D, CH_D, SEMI>> => writer' = Append(writer, 8517)
               /\ b \in {<<AMP, CH_d, CH_D, SEMI>>, <<AMP, CH_D, CH_d, SEMI>>}
                    => EntityRecords(b) = {}
      ]_vars

C12_Witness ==
    /\ sloppy /\ result = Running /\ state = "Normal" /\ buf = <<>>
    /\ input = <<CH_x, AMP, CH_d, CH_D, SEMI>>
    /\ writer = input

\* The digits without their leading zeros.
RECURSIVE Significant(_)
Significant(digits) ==
    IF digits # <<>> /\ Head(digits) = CH_0 THEN Significant(Tail(digits))
    ELSE digits

\* t is before u, for two strings of decimal digits of one length.
RECURSIVE DigitsLess(_, _)
DigitsLess(t, u) ==
    /\ t # <<>>
    /\ \/ Head(t) < Head(u)
       \/ Head(t) = Head(u) /\ DigitsLess(Tail(t), Tail(u))

U32MaxDecimal == <<52, 50, 57, 52, 57, 54, 55, 50, 57, 53>>   \* "4294967295"

\* The digits denote a value of 2^32 or more.
AboveU32(digits, radix) ==
    LET sig == Significant(digits)
    IN  IF radix = 16 THEN Len(sig) > 8
        ELSE \/ Len(sig) > 10
             \/ Len(sig) = 10 /\ DigitsLess(U32MaxDecimal, sig)

\* The digits denote a Unicode scalar value.
IsScalar(digits, radix) ==
    LET sig == Significant(digits)
    IN  /\ digits # <<>>
        /\ Len(sig) <= 7
        /\ NatValue(sig, radix) <= 1114111
        /\ ~(NatValue(sig, radix) >= 55296 /\ NatValue(sig, radix) <= 57343)

\* C13: when `;` closes `&#digits` (radix 10) or `&#xdigits` (radix 16,
\* either case) read from Normal, the digits are parsed as a u32.  A
\* Unicode scalar value is written as that one character, the buffer is
\* cleared and the state is Normal.  No digits (`&#x;`) and a value of 2^32
\* or more return MalformedNumEscape.
C13_NumericReference ==
    [][ ( /\ Reads(SEMI)
          /\ state \in {"Dec", "Hex"}
          /\ buf # <<>> /\ buf[1] = AMP )
        => LET digits == Tail(buf)
               radix == IF state = "Hex" THEN 16 ELSE 10
           IN  /\ \A i \in 1..Len(digits) : Continues(state, digits[i])
               /\ state = "Dec" => digits # <<>>
               /\ IsScalar(digits, radix) =>
                    /\ writer' = Append(writer, NatValue(Significant(digits), radix))
                    /\ buf' = <<>> /\ state' = "Normal" /\ result' = Running
               /\ (digits = <<>> \/ AboveU32(digits, radix)) =>
                    /\ result' = Err(good_pos, "MalformedNumEscape")
                    /\ writer' = writer
      ]_vars

C13_Witness ==
    /\ result = Running /\ state = "Normal" /\ buf = <<>>
    /\ input = <<AMP, HASH, CH_x, CH_d, CH_D, SEMI>>
    /\ writer = <<221>>

\* C14: in both modes, while decode runs, the buffer is empty exactly when
\* the state is Normal, in every other state it starts with `&`, and the
\* slice &buf[1..] taken on `;` in Dec and Hex is in bounds: decode does not
\* panic.
C14_BufferMatchesState ==
    /\ result.tag # "panic"
    /\ result = Running =>
          /\ buf = <<>> <=> state = "Normal"
          /\ state # "Normal" => (buf # <<>> /\ buf[1] = AMP)

\* C15: in sloppy mode the step that drops a malformed numeric escape
\* leaves the decoder in Normal, and a literal character read next is
\* written.
C15_SloppyResumes ==
    [][ \A c \in Alphabet :
          ( /\ sloppy /\ Reads(c)
            /\ state \in {"Numeric", "Hex", "Dec"}
            /\ c # SEMI /\ ~Continues(state, c) )
          => ( /\ state' = "Normal"
               /\ \A l \in Alphabet \ {AMP} :
                     loop_body(Cur', Len(input'), l).writer = Append(writer', l) )
      ]_vars

\* The locals of decode_html_rw in mode sl after the first k characters of
\* the input read so far.
Prefix(sl, k) == decode_from(Locals(sl), SubSeq(input, 1, k), 1, FALSE)

\* C16: on an input that strict decode accepts, sloppy decode returns Ok
\* with the same output, and the two runs have the same state, buffer and
\* good_pos after every character.
C16_SloppyAgreesWithStrict ==
    (~sloppy /\ result = Ok) =>
        /\ decode_html_rw(input, TRUE).result = Ok
        /\ decode_html_rw(input, TRUE).writer = writer
        /\ \A k \in 0..Len(input) :
              /\ Prefix(TRUE, k).result = Running
              /\ Prefix(TRUE, k).state = Prefix(FALSE, k).state
              /\ Prefix(TRUE, k).buf = Prefix(FALSE, k).buf
              /\ Prefix(TRUE, k).good_pos = Prefix(FALSE, k).good_pos

C16_Witness ==
    /\ ~sloppy /\ result = Ok
    /\ input = <<AMP, CH_d, CH_d, SEMI, CH_x>>
    /\ writer = <<8518, CH_x>>
    /\ decode_html_rw(input, TRUE).writer = writer

\* C17: for every text, the characters the encoders escape included, the
\* strict decode of encode_minimal(text) and of encode_attribute(text)
\* returns Ok(text).
C17_RoundTrip ==
    (pc = "done" /\ ~sloppy) => (result = Ok /\ writer = s)

C17_Witness ==
    /\ pc = "done" /\ ~sloppy /\ enc = "attribute"
    /\ Len(s) = 3 /\ s[1] \in MinimalDomain
    /\ Has(s, 39) /\ Has(s, CH_COMMA)
    /\ result = Ok /\ writer = s

\* C18: when strict decode fails with an entity-parsing error at position
\* p, the sink holds exactly what a strict decode of the first p characters
\* of the input writes, and that decode succeeds: nothing of the offending
\* entity is written.
C18_CleanPrefixOnError ==
    (~sloppy /\ result.tag = "err" /\ result.kind \in EntityKinds) =>
        LET head == decode_html_rw(SubSeq(input, 1, result.position), FALSE)
        IN  head.result = Ok /\ head.writer = writer

C18_Witness ==
    /\ ~sloppy /\ result.tag = "err" /\ result.kind \in EntityKinds
    /\ result.position = 4
    /\ SubSeq(input, 1, 4) = <<AMP, CH_d, CH_d, SEMI>>
    /\ writer = <<8518>>

\* C19: good_pos never exceeds the current position.  `input` holds the
\* characters the loop has taken, so the character being processed has index
\* Len(input) before its step and Len(input) - 1 after it: good_pos is at
\* most Len(input) at every point, an error returned while a character is
\* processed lies at or before that character's index, and every returned
\* error position is at most the number of characters read.
C19_GoodPosBounded ==
    /\ good_pos <= Len(input)
    /\ (result.tag = "err" /\ yielded = "char") =>
           result.position <= Len(input) - 1
    /\ result.tag = "err" => result.position <= Len(input)

\* The bound is met: the reader fails right after text that was fully
\* decoded, and the error lies at the number of characters read.
C19_Witness ==
    /\ result.tag = "err" /\ yielded \in {"NotUtf8", "Other"}
    /\ Len(input) >= 2
    /\ good_pos = Len(input) /\ result.position = Len(input)

====
